---- MODULE Spec2Model ----
(***************************************************************************)
(* State-machine model of the TQQQ/SQQQ trading bot                        *)
(* (src/tqqq_bot_aws_ec2/tqqq_sqqq_bot.py, launcher run_bot.py).           *)
(*                                                                         *)
(* One process run is: constructor, then run(): three wall-clock           *)
(* checkpoints (6:30 open capture, 7:00 entry decision, 12:59 exit close)  *)
(* each guarded by wait_until_time, then the daily summary.  The broker    *)
(* (positions, accepted orders) and the wall clock outlive the process;    *)
(* everything else is in-process day-state that a restart loses.           *)
(*                                                                         *)
(* Encoding: Python None is the integer None (-1) for prices; valid        *)
(* prices are positive integers (price ticks).  Time is seconds of day.    *)
(***************************************************************************)
EXTENDS Integers, Sequences, FiniteSets, TLC

\* ---------------------------------------------------------------- bounds
MaxPrice == 2
MaxQty == 2
MaxShort == 1
MaxRuns == 2
MaxLead == 5

\* ------------------------------------------------------ program constants
max_retries == 3
retry_delay == 2
quantity == 1
SleepChunk == 60
PostOpenDelay == 5

None == 0 - 1

tqqq_symbol == "TQQQ"
sqqq_symbol == "SQQQ"
Symbols == {tqqq_symbol, sqqq_symbol}
NoSymbol == "None"

\* now_pdt.replace(hour=h, minute=m, second=0, microsecond=0), as seconds of day
TimeOfDay(hour, minute) == hour * 3600 + minute * 60
T630 == TimeOfDay(6, 30)
T700 == TimeOfDay(7, 0)
T1259 == TimeOfDay(12, 59)
Targets == {T630, T700, T1259}

\* Instants at which the clock is sampled, around every checkpoint: more
\* than two sleep chunks before it, on it, and one second past it.
ClockOffsets == {0 - (2 * SleepChunk + MaxLead), 0, 1}
ClockSamples == {t + d : t \in Targets, d \in ClockOffsets}

Prices == 1..MaxPrice
PosQtys == (0 - MaxShort)..MaxQty

\* Python truthiness of an optional number: None and 0 are falsy.
Truthy(p) == p # None /\ p # 0

\* ------------------------------------------------------------ price oracle
\* One quote attempt: the request raises, the reply lacks the symbol, or the
\* reply carries (ask, bid), each None, 0 or a positive price.
QuoteVals == {None, 0} \cup Prices
AttemptOutcomes ==
    {[kind |-> "exc", ask |-> None, bid |-> None],
     [kind |-> "noquote", ask |-> None, bid |-> None]}
    \cup {[kind |-> "quote", ask |-> a, bid |-> b] : a \in QuoteVals, b \in QuoteVals}

\* price = ask; if price == 0 or price is None: price = bid
QuotePrice(a) == IF a.ask = 0 \/ a.ask = None THEN a.bid ELSE a.ask

\* Variant: only an absent price is refused.
ValidPriceLoose(p) == p # None

\* if price and price > 0
ValidPrice(p) == Truthy(p) /\ p > 0

RECURSIVE PriceLoop(_, _)
PriceLoop(atts, i) ==
    IF i > max_retries
    THEN [price |-> None, requests |-> max_retries, sleeps |-> <<>>]
    ELSE LET a == atts[i] IN
         IF a.kind = "exc"
         THEN LET r == PriceLoop(atts, i + 1) IN
              [r EXCEPT !.sleeps = (IF i < max_retries THEN <<[after |-> i, secs |-> retry_delay]>> ELSE <<>>) \o @]
         ELSE IF a.kind = "quote" /\ ValidPrice(QuotePrice(a))
         THEN [price |-> QuotePrice(a), requests |-> i, sleeps |-> <<>>]
         ELSE PriceLoop(atts, i + 1)

\* Variant: the loop starts at the second attempt.
get_current_price_late(atts) == PriceLoop(atts, 2)

\* for attempt in range(max_retries): ...; return None
get_current_price(atts) == PriceLoop(atts, 1)

\* Every value one get_current_price call can return.
PriceResults == {get_current_price(s).price : s \in [1..max_retries -> AttemptOutcomes]}

\* ------------------------------------------------------------------ state
VARIABLES
    run,                \* number of process runs started this calendar day
    now,                \* wall clock, seconds of day (fixed zone)
    pc,                 \* position of the process in __init__ / run()
    wait_seconds,       \* wait_until_time: the countdown the last call computed
    slept,              \* wait_until_time: seconds slept by the last call
    naps,               \* wait_until_time: sleep calls made by the last call
    open_price_630am,
    current_price_7am,
    position_symbol,
    position_opened,
    today_trades,
    positions_closed,   \* close_positions: local list
    position_seen,      \* close_positions: what get_position returned per symbol
    notifications,      \* events handed to the notifier in this run
    summary_calls,      \* generate_daily_summary invocations in this run
    skipped,            \* run(): the checkpoints whose wait returned False
    exc,                \* exception that ended the run ("none" if none)
    exit_code,          \* process exit code, None while running
    brokerPos,          \* broker: signed position per symbol
    submits,            \* broker: every submit_order call of the day
    price_call,         \* the get_current_price call under study: attempts and result
    price_failures,     \* get_current_price calls of this run that returned None
    tqqq_bot,           \* the TQQQTradingBot instance (single-symbol variant)
    launcher            \* the launcher invocation (run_bot.py / run_tqqq_bot.py)

botVars == <<run, now, pc, wait_seconds, slept, naps, open_price_630am, current_price_7am,
             position_symbol, position_opened, today_trades, positions_closed,
             position_seen, notifications, summary_calls, skipped, exc, exit_code,
             brokerPos, submits, price_failures>>

vars == <<botVars, price_call, tqqq_bot, launcher>>

dayState == <<open_price_630am, current_price_7am, position_symbol, position_opened,
              today_trades, positions_closed, position_seen>>
broker == <<brokerPos, submits>>
waitState == <<wait_seconds, slept, naps>>

\* send_notification(title, message): every call site of the bot leaves the
\* urgency at its default, 'normal'.  about = the symbols the message names.
NoteAbout(title, about) == [title |-> title, about |-> about, urgency |-> "normal"]
Note(title) == NoteAbout(title, <<>>)

Unqueried == [status |-> "unqueried", qty |-> 0]

\* No get_current_price call is under study.
NoCall == [called |-> FALSE, atts |-> <<>>, price |-> None, requests |-> 0, sleeps |-> <<>>]

\* TQQQTradingBot.__init__ (single-symbol variant): the day-state of a new
\* instance; notifications and exc are the events it sent and the exception
\* that ended its run.
NewTQQQBot ==
    [pc |-> "init", market_open_price |-> None, seven_am_price |-> None,
     position_opened |-> FALSE, today_trades |-> <<>>, notifications |-> <<>>,
     position_seen |-> Unqueried, exc |-> "none"]

\* No launcher invocation is under study: the bot is constructed directly.
NoLaunch ==
    [program |-> "none", mode |-> "run", live |-> FALSE, paper |-> FALSE, force |-> FALSE,
     valid |-> TRUE, answer |-> "", config |-> <<>>, errors |-> {},
     constructed |-> FALSE, paper_trading |-> TRUE, status |-> None]

Init ==
    /\ run = 1
    /\ now \in ClockSamples
    /\ pc = "init"
    /\ wait_seconds = 0
    /\ slept = 0
    /\ naps = 0
    /\ open_price_630am = None
    /\ current_price_7am = None
    /\ position_symbol = NoSymbol
    /\ position_opened = FALSE
    /\ today_trades = <<>>
    /\ positions_closed = <<>>
    /\ position_seen = [s \in Symbols |-> Unqueried]
    /\ notifications = <<>>
    /\ summary_calls = 0
    /\ skipped = {}
    /\ exc = "none"
    /\ exit_code = None
    /\ brokerPos \in [Symbols -> PosQtys]
    /\ submits = <<>>
    /\ price_call = NoCall
    /\ price_failures = 0
    /\ tqqq_bot = NewTQQQBot
    /\ launcher = NoLaunch

\* ------------------------------------------------------------- scheduler
\* Variant: the target counts as passed one second late.
PassedLate(n, target) == n > target + 1

\* if now_pdt > target_time: return False
Passed(n, target) == n > target

\* Variant: the last chunk (60 seconds or less) is not slept.
WaitIterNoTail(st) ==
    IF st.done \/ ~(st.w > 0)
    THEN [st EXCEPT !.done = TRUE]
    ELSE IF st.w > SleepChunk
    THEN [w |-> st.w - SleepChunk, slept |-> st.slept + SleepChunk,
          naps |-> st.naps + 1, done |-> FALSE]
    ELSE [w |-> st.w, slept |-> st.slept, naps |-> st.naps, done |-> TRUE]

\* One iteration of the loop of wait_until_time on the loop state
\* [w: countdown, slept: seconds slept, naps: sleep calls, done: loop left]:
\*   while wait_seconds > 0:
\*       if wait_seconds > 60: time.sleep(60); wait_seconds -= 60
\*       else: time.sleep(wait_seconds); break
WaitIter(st) ==
    IF st.done \/ ~(st.w > 0)
    THEN [st EXCEPT !.done = TRUE]
    ELSE IF st.w > SleepChunk
    THEN [w |-> st.w - SleepChunk, slept |-> st.slept + SleepChunk,
          naps |-> st.naps + 1, done |-> FALSE]
    ELSE [w |-> st.w, slept |-> st.slept + st.w, naps |-> st.naps + 1, done |-> TRUE]

LoopStates == [w : Int, slept : Nat, naps : Nat, done : BOOLEAN]

\* n iterations, one after the other (split in halves, and a function so
\* that each intermediate loop state is computed before the next iteration).
Repeat[a \in Nat \X LoopStates] ==
    IF a[1] = 0 THEN a[2]
    ELSE IF a[1] = 1 THEN WaitIter(a[2])
    ELSE Repeat[<<a[1] - (a[1] \div 2), Repeat[<<a[1] \div 2, a[2]>>]>>]

\* The whole loop from a countdown of w seconds: w \div 60 + 1 iterations
\* always reach the exit.
WaitLoop(w) ==
    Repeat[<<(IF w > 0 THEN w \div SleepChunk ELSE 0) + 1,
             [w |-> w, slept |-> 0, naps |-> 0, done |-> FALSE]>>]

\* wait_until_time(hour, minute): returns False at once when the target has
\* passed (the run goes on to `next`), otherwise sleeps through the countdown
\* and returns True (the run enters `handler`).
WaitUntilTime(at, target, handler, next) ==
    /\ pc = at
    /\ IF Passed(now, target)
       THEN /\ pc' = next
            /\ skipped' = skipped \cup {at}
            /\ wait_seconds' = 0
            /\ slept' = 0
            /\ naps' = 0
            /\ now' = now
       ELSE LET r == WaitLoop(target - now) IN
            /\ wait_seconds' = target - now
            /\ slept' = r.slept
            /\ naps' = r.naps
            /\ now' = now + r.slept
            /\ pc' = handler
            /\ skipped' = skipped
    /\ UNCHANGED <<price_call, tqqq_bot, launcher, price_failures, run, dayState, notifications, summary_calls, exc, exit_code, broker>>

Wait630 == WaitUntilTime("wait630", T630, "capture", "wait700")
Wait700 == WaitUntilTime("wait700", T700, "entry", "wait1259")
Wait1259 == WaitUntilTime("wait1259", T1259, "close_tqqq", "summary")

\* -------------------------------------------------------- order executor
\* Variant: a rejected submission is sent a second time.
PlaceOrderRetry(io, symbol, side, qty, phase, accept, price) ==
    LET sub == [symbol |-> symbol, side |-> side, qty |-> qty, accepted |-> accept,
                run |-> run, phase |-> phase, id |-> Len(io.submits) + 1]
        once == [io EXCEPT !.submits = Append(@, sub),
                           !.failed = IF accept /\ price = None THEN @ + 1 ELSE @,
                           !.pos = IF accept
                                   THEN [@ EXCEPT ![symbol] = IF side = "BUY" THEN @ + qty ELSE @ - qty]
                                   ELSE @]
        sent == IF accept THEN once
                ELSE [once EXCEPT !.submits = Append(@, [sub EXCEPT !.id = @ + 1])]
        rec == [action |-> side, symbol |-> symbol, quantity |-> qty,
                price |-> price, order_id |-> sub.id]
    IN  IF accept /\ price # None
        THEN [io |-> [sent EXCEPT !.notes = Append(@, NoteAbout("Trade Executed", <<side, symbol>>)),
                                  !.trades = Append(@, rec)],
              order |-> TRUE]
        ELSE [io |-> [sent EXCEPT !.notes = Append(@, NoteAbout("Order Failed", <<symbol>>))],
              order |-> FALSE]

\* Variant: the trade is recorded before the outcome of the submission is
\* known, so a rejected order leaves a record behind.
PlaceOrderRecordFirst(io, symbol, side, qty, phase, accept, price) ==
    LET sub == [symbol |-> symbol, side |-> side, qty |-> qty, accepted |-> accept,
                run |-> run, phase |-> phase, id |-> Len(io.submits) + 1]
        rec == [action |-> side, symbol |-> symbol, quantity |-> qty,
                price |-> price, order_id |-> sub.id]
        sent == [io EXCEPT !.submits = Append(@, sub),
                           !.trades = Append(@, rec),
                           !.failed = IF accept /\ price = None THEN @ + 1 ELSE @,
                           !.pos = IF accept
                                   THEN [@ EXCEPT ![symbol] = IF side = "BUY" THEN @ + qty ELSE @ - qty]
                                   ELSE @]
    IN  IF accept /\ price # None
        THEN [io |-> [sent EXCEPT !.notes = Append(@, NoteAbout("Trade Executed", <<side, symbol>>))],
              order |-> TRUE]
        ELSE [io |-> [sent EXCEPT !.notes = Append(@, NoteAbout("Order Failed", <<symbol>>))],
              order |-> FALSE]

\* Variant: the newest trade record is put at the head of the list.
PlaceOrderNewestFirst(io, symbol, side, qty, phase, accept, price) ==
    LET sub == [symbol |-> symbol, side |-> side, qty |-> qty, accepted |-> accept,
                run |-> run, phase |-> phase, id |-> Len(io.submits) + 1]
        sent == [io EXCEPT !.submits = Append(@, sub),
                           !.failed = IF accept /\ price = None THEN @ + 1 ELSE @,
                           !.pos = IF accept
                                   THEN [@ EXCEPT ![symbol] = IF side = "BUY" THEN @ + qty ELSE @ - qty]
                                   ELSE @]
        rec == [action |-> side, symbol |-> symbol, quantity |-> qty,
                price |-> price, order_id |-> sub.id]
    IN  IF accept /\ price # None
        THEN [io |-> [sent EXCEPT !.notes = Append(@, NoteAbout("Trade Executed", <<side, symbol>>)),
                                  !.trades = <<rec>> \o @],
              order |-> TRUE]
        ELSE [io |-> [sent EXCEPT !.notes = Append(@, NoteAbout("Order Failed", <<symbol>>))],
              order |-> FALSE]

\* io = [trades, notes, pos, submits]: the part of the state place_order
\* touches.  accept: the broker accepts the order (submit_order returns);
\* price: what the get_current_price call after the submission returns.
\* A price of None makes the "~${current_price:.2f}" format raise TypeError
\* inside the try block, so the except branch runs although the broker has
\* accepted the order.
PlaceOrder(io, symbol, side, qty, phase, accept, price) ==
    LET sub == [symbol |-> symbol, side |-> side, qty |-> qty, accepted |-> accept,
                run |-> run, phase |-> phase, id |-> Len(io.submits) + 1]
        sent == [io EXCEPT !.submits = Append(@, sub),
                           !.failed = IF accept /\ price = None THEN @ + 1 ELSE @,
                           !.pos = IF accept
                                   THEN [@ EXCEPT ![symbol] = IF side = "BUY" THEN @ + qty ELSE @ - qty]
                                   ELSE @]
        rec == [action |-> side, symbol |-> symbol, quantity |-> qty,
                price |-> price, order_id |-> sub.id]
    IN  IF accept /\ price # None
        THEN [io |-> [sent EXCEPT !.notes = Append(@, NoteAbout("Trade Executed", <<side, symbol>>)),
                                  !.trades = Append(@, rec)],
              order |-> TRUE]
        ELSE [io |-> [sent EXCEPT !.notes = Append(@, NoteAbout("Order Failed", <<symbol>>))],
              order |-> FALSE]

IO == [trades |-> today_trades, notes |-> notifications, pos |-> brokerPos, submits |-> submits,
       failed |-> price_failures]

\* --------------------------------------------------------------- startup
\* Variant: a failed connection check is logged and the bot starts anyway.
StartUnverified ==
    /\ pc = "init"
    /\ \E connected \in BOOLEAN :
         /\ pc' = "wait630"
         /\ notifications' = Append(notifications, Note("Bot Started"))
         /\ exc' = IF connected THEN exc ELSE "ConnectError"
         /\ UNCHANGED exit_code
    /\ UNCHANGED <<price_call, tqqq_bot, launcher, price_failures, run, now, waitState, dayState, summary_calls, skipped, broker>>

\* __init__: _setup_api_clients verifies the connection with get_account and
\* re-raises on failure (run_bot then returns False, main returns 1);
\* otherwise the day-state is initialised and "Bot Started" is notified.
Start ==
    /\ pc = "init"
    /\ \E connected \in BOOLEAN :
         IF connected
         THEN /\ pc' = "wait630"
              /\ notifications' = Append(notifications, Note("Bot Started"))
              /\ UNCHANGED <<exc, exit_code>>
         ELSE /\ pc' = "aborted"
              /\ exc' = "ConnectError"
              /\ exit_code' = 1
              /\ UNCHANGED notifications
    /\ UNCHANGED <<price_call, tqqq_bot, launcher, price_failures, run, now, waitState, dayState, summary_calls, skipped, broker>>

\* ---------------------------------------------------------- open capture
\* Variant: a failed capture goes back to wait for the open again.
CaptureOpenPriceAgain ==
    /\ pc = "capture"
    /\ \E p \in PriceResults :
         /\ open_price_630am' = p
         /\ notifications' = Append(notifications,
                IF Truthy(p) THEN Note("Open Price Captured") ELSE Note("Error: Open Price"))
         /\ price_failures' = IF p = None THEN price_failures + 1 ELSE price_failures
         /\ pc' = IF Truthy(p) THEN "wait700" ELSE "wait630"
    /\ now' = now + PostOpenDelay
    /\ UNCHANGED <<price_call, tqqq_bot, launcher, run, waitState, current_price_7am, position_symbol, position_opened,
                   today_trades, positions_closed, position_seen, summary_calls, skipped, exc,
                   exit_code, broker>>

\* time.sleep(5); capture_open_price()
CaptureOpenPrice ==
    /\ pc = "capture"
    /\ \E p \in PriceResults :
         /\ open_price_630am' = p
         /\ notifications' = Append(notifications,
                IF Truthy(p) THEN Note("Open Price Captured") ELSE Note("Error: Open Price"))
         /\ price_failures' = IF p = None THEN price_failures + 1 ELSE price_failures
    /\ now' = now + PostOpenDelay
    /\ pc' = "wait700"
    /\ UNCHANGED <<price_call, tqqq_bot, launcher, run, waitState, current_price_7am, position_symbol, position_opened,
                   today_trades, positions_closed, position_seen, summary_calls, skipped, exc,
                   exit_code, broker>>

\* -------------------------------------------------------- entry decision
\* Variant: a tie goes long.
GoLongOnTie(p7, open) == p7 >= open

\* if self.current_price_7am > self.open_price_630am
GoLong(p7, open) == p7 > open

\* Variant: only the 7:00 price is checked before the comparison.
ExecuteEntryStrategyUnchecked(io, open, p7, sqqq_price, accept, ordPrice) ==
    LET stay == [io |-> io, position_symbol |-> position_symbol,
                 position_opened |-> position_opened]
        bought(symbol, title) ==
            LET r == PlaceOrder(io, symbol, "BUY", quantity, "entry", accept, ordPrice) IN
            IF r.order
            THEN [io |-> [r.io EXCEPT !.notes = Append(@, NoteAbout(title, <<symbol>>))],
                  position_symbol |-> symbol, position_opened |-> TRUE]
            ELSE [stay EXCEPT !.io = r.io]
    IN  IF ~Truthy(p7)
        THEN [stay EXCEPT !.io.notes = Append(@, Note("Strategy Error")),
                          !.io.failed = IF p7 = None THEN @ + 1 ELSE @]
        ELSE IF GoLong(p7, open)
        THEN bought(tqqq_symbol, "BUY TQQQ Signal")
        ELSE IF Truthy(sqqq_price)
        THEN bought(sqqq_symbol, "BUY SQQQ Signal")
        ELSE [stay EXCEPT !.io.failed = @ + 1]

\* Variant: the inverse branch orders SQQQ whether or not its price was read.
ExecuteEntryStrategyBlind(io, open, p7, sqqq_price, accept, ordPrice) ==
    LET stay == [io |-> io, position_symbol |-> position_symbol,
                 position_opened |-> position_opened]
        bought(symbol, title) ==
            LET r == PlaceOrder(io, symbol, "BUY", quantity, "entry", accept, ordPrice) IN
            IF r.order
            THEN [io |-> [r.io EXCEPT !.notes = Append(@, NoteAbout(title, <<symbol>>))],
                  position_symbol |-> symbol, position_opened |-> TRUE]
            ELSE [stay EXCEPT !.io = r.io]
    IN  IF ~Truthy(p7) \/ ~Truthy(open)
        THEN [stay EXCEPT !.io.notes = Append(@, Note("Strategy Error")),
                          !.io.failed = IF p7 = None THEN @ + 1 ELSE @]
        ELSE IF GoLong(p7, open)
        THEN bought(tqqq_symbol, "BUY TQQQ Signal")
        ELSE bought(sqqq_symbol, "BUY SQQQ Signal")

\* execute_entry_strategy(): p7 = the 7:00 price read, sqqq_price = the SQQQ
\* price read of the inverse branch, accept / ordPrice = inputs of place_order.
ExecuteEntryStrategy(io, open, p7, sqqq_price, accept, ordPrice) ==
    LET stay == [io |-> io, position_symbol |-> position_symbol,
                 position_opened |-> position_opened]
        bought(symbol, title) ==
            LET r == PlaceOrder(io, symbol, "BUY", quantity, "entry", accept, ordPrice) IN
            IF r.order
            THEN [io |-> [r.io EXCEPT !.notes = Append(@, NoteAbout(title, <<symbol>>))],
                  position_symbol |-> symbol, position_opened |-> TRUE]
            ELSE [stay EXCEPT !.io = r.io]
    IN  IF ~Truthy(p7) \/ ~Truthy(open)
        THEN [stay EXCEPT !.io.notes = Append(@, Note("Strategy Error")),
                          !.io.failed = IF p7 = None THEN @ + 1 ELSE @]
        ELSE IF GoLong(p7, open)
        THEN bought(tqqq_symbol, "BUY TQQQ Signal")
        ELSE IF Truthy(sqqq_price)
        THEN bought(sqqq_symbol, "BUY SQQQ Signal")
        ELSE [stay EXCEPT !.io.failed = @ + 1]

\* Variant: the 7:00 price read also replaces the captured open price.
EntryRecapture ==
    /\ pc = "entry"
    /\ \E p7 \in PriceResults, sqqq_price \in PriceResults,
          accept \in BOOLEAN, ordPrice \in PriceResults :
         LET r == ExecuteEntryStrategy(IO, open_price_630am, p7, sqqq_price, accept, ordPrice) IN
         /\ current_price_7am' = p7
         /\ open_price_630am' = IF Truthy(p7) THEN p7 ELSE open_price_630am
         /\ position_symbol' = r.position_symbol
         /\ position_opened' = r.position_opened
         /\ today_trades' = r.io.trades
         /\ notifications' = r.io.notes
         /\ brokerPos' = r.io.pos
         /\ submits' = r.io.submits
         /\ price_failures' = r.io.failed
    /\ pc' = "wait1259"
    /\ UNCHANGED <<price_call, tqqq_bot, launcher, run, now, waitState, positions_closed, position_seen,
                   summary_calls, skipped, exc, exit_code>>

Entry ==
    /\ pc = "entry"
    /\ \E p7 \in PriceResults, sqqq_price \in PriceResults,
          accept \in BOOLEAN, ordPrice \in PriceResults :
         LET r == ExecuteEntryStrategy(IO, open_price_630am, p7, sqqq_price, accept, ordPrice) IN
         /\ current_price_7am' = p7
         /\ position_symbol' = r.position_symbol
         /\ position_opened' = r.position_opened
         /\ today_trades' = r.io.trades
         /\ notifications' = r.io.notes
         /\ brokerPos' = r.io.pos
         /\ submits' = r.io.submits
         /\ price_failures' = r.io.failed
    /\ pc' = "wait1259"
    /\ UNCHANGED <<price_call, tqqq_bot, launcher, run, now, waitState, open_price_630am, positions_closed, position_seen,
                   summary_calls, skipped, exc, exit_code>>

\* ------------------------------------------------------------ exit close
\* get_position(symbol): the matching entry of get_all_positions (the broker
\* lists only nonzero positions), None when there is none, and None as well
\* when the query raises (answered = FALSE).  status keeps the three apart
\* for the properties; the code sees only "held" or not.
GetPosition(pos, symbol, answered) ==
    IF ~answered THEN [status |-> "failed", qty |-> 0]
    ELSE IF pos[symbol] = 0 THEN [status |-> "none", qty |-> 0]
    ELSE [status |-> "held", qty |-> pos[symbol]]

\* Variant: any reported position is closed, whatever its sign.
ShouldCloseAny(position) == position.status = "held"

\* if position and float(position.qty) > 0
ShouldClose(position) == position.status = "held" /\ position.qty > 0

\* After an accepted closing order the TQQQ block always adds its line to
\* positions_closed; the SQQQ block adds one only inside
\* `if self.position_symbol == self.sqqq_symbol`, which has no else branch.
Summarised(symbol) == symbol = tqqq_symbol \/ position_symbol = sqqq_symbol

\* One of the two blocks of close_positions().  price = the price read
\* before the order; None makes the "${current_price:.2f}" log line raise
\* TypeError before any order is placed, and nothing in close_positions
\* catches it.
ClosePosition(io, closed, symbol, answered, price, accept, ordPrice) ==
    LET position == GetPosition(io.pos, symbol, answered) IN
    IF ~ShouldClose(position)
    THEN [io |-> io, closed |-> closed, seen |-> position, raised |-> FALSE]
    ELSE IF price = None
    THEN [io |-> [io EXCEPT !.failed = @ + 1], closed |-> closed, seen |-> position,
          raised |-> TRUE]
    ELSE LET r == PlaceOrder(io, symbol, "SELL", position.qty, "exit", accept, ordPrice) IN
         [io |-> r.io,
          closed |-> IF r.order /\ Summarised(symbol) THEN Append(closed, symbol) ELSE closed,
          seen |-> position, raised |-> FALSE]

\* run(): except Exception -> "Bot Error" notification, re-raise; run_bot
\* catches it and returns False, main returns 1.
Unexpected(notes) == Append(notes, Note("Bot Error"))

\* The closing notification of close_positions().
CloseNote(closed) ==
    IF closed # <<>> THEN NoteAbout("Positions Closed at 12:59 PM", closed)
    ELSE Note("No Positions")

CloseStep(at, symbol, last, next) ==
    /\ pc = at
    /\ \E answered \in BOOLEAN, price \in PriceResults,
          accept \in BOOLEAN, ordPrice \in PriceResults :
         LET r == ClosePosition(IO, positions_closed, symbol, answered, price, accept, ordPrice) IN
         /\ position_seen' = [position_seen EXCEPT ![symbol] = r.seen]
         /\ positions_closed' = r.closed
         /\ today_trades' = r.io.trades
         /\ brokerPos' = r.io.pos
         /\ submits' = r.io.submits
         /\ price_failures' = r.io.failed
         /\ IF r.raised
            THEN /\ notifications' = Unexpected(r.io.notes)
                 /\ pc' = "error"
                 /\ exc' = "TypeError"
                 /\ exit_code' = 1
            ELSE /\ notifications' = IF last THEN Append(r.io.notes, CloseNote(r.closed))
                                     ELSE r.io.notes
                 /\ pc' = next
                 /\ UNCHANGED <<exc, exit_code>>
    /\ UNCHANGED <<price_call, tqqq_bot, launcher, run, now, waitState, open_price_630am, current_price_7am,
                   position_symbol, position_opened, summary_calls, skipped>>

CloseTQQQ == CloseStep("close_tqqq", tqqq_symbol, FALSE, "close_sqqq")
CloseSQQQ == CloseStep("close_sqqq", sqqq_symbol, TRUE, "summary")

\* --------------------------------------------------------------- summary
\* generate_daily_summary(): the account query is inside try/except, the
\* two file writes are not.  The "Daily Summary" notification precedes the
\* writes.  After it run() notifies "Bot Completed" and returns; run_bot
\* returns True and main returns 0.
SummaryOutcomes == {"ok", "account_failed", "write_failed"}

Summary ==
    /\ pc = "summary"
    /\ summary_calls' = summary_calls + 1
    /\ \E outcome \in SummaryOutcomes :
         IF outcome = "write_failed"
         THEN /\ notifications' = Unexpected(Append(notifications, Note("Daily Summary")))
              /\ pc' = "error"
              /\ exc' = "OSError"
              /\ exit_code' = 1
         ELSE /\ notifications' = Append(Append(notifications, Note("Daily Summary")),
                                         Note("Bot Completed"))
              /\ pc' = "done"
              /\ exit_code' = 0
              /\ UNCHANGED exc
    /\ UNCHANGED <<price_call, tqqq_bot, launcher, price_failures, run, now, waitState, dayState, skipped, broker>>

\* ------------------------------------------------------ signals, restart
Terminal == {"done", "cancelled", "error", "aborted"}

\* Variant: the handler notifies and notes the request but does not exit.
HandleShutdownNoExit ==
    /\ pc \notin {"done", "cancelled", "error", "aborted", "init"}
    /\ exc = "none"
    /\ notifications' = Append(notifications, Note("Bot Shutdown"))
    /\ exc' = "SystemExit"
    /\ UNCHANGED <<price_call, tqqq_bot, launcher, price_failures, run, now, pc, exit_code, waitState, dayState, summary_calls,
                   skipped, broker>>

\* _handle_shutdown (SIGTERM / SIGINT, installed by __init__): notify
\* "Bot Shutdown", sys.exit(0).  SystemExit is not an Exception, so neither
\* run() nor run_bot catches it.
HandleShutdown ==
    /\ pc \notin Terminal \cup {"init"}
    /\ notifications' = Append(notifications, Note("Bot Shutdown"))
    /\ pc' = "cancelled"
    /\ exc' = "SystemExit"
    /\ exit_code' = 0
    /\ UNCHANGED <<price_call, tqqq_bot, launcher, price_failures, run, now, waitState, dayState, summary_calls, skipped, broker>>

\* Wall-clock time passes while the process is between two clock readings.
Tick ==
    /\ pc \in {"wait630", "wait700", "wait1259"}
    /\ now' \in {s \in ClockSamples : s > now}
    /\ UNCHANGED <<price_call, tqqq_bot, launcher, price_failures, run, pc, waitState, dayState, notifications, summary_calls, skipped,
                   exc, exit_code, broker>>

\* The process is killed (or has ended) and a new one is started later the
\* same day: __init__ builds fresh day-state; the broker keeps its positions
\* and orders; the new process reads the clock strictly later than any
\* earlier reading.
Restart ==
    /\ run < MaxRuns
    /\ run' = run + 1
    /\ now' \in {s \in ClockSamples : s > now} \cup {now + 1}
    /\ pc' = "init"
    /\ wait_seconds' = 0
    /\ slept' = 0
    /\ naps' = 0
    /\ open_price_630am' = None
    /\ current_price_7am' = None
    /\ position_symbol' = NoSymbol
    /\ position_opened' = FALSE
    /\ today_trades' = <<>>
    /\ positions_closed' = <<>>
    /\ position_seen' = [s \in Symbols |-> Unqueried]
    /\ notifications' = <<>>
    /\ summary_calls' = 0
    /\ skipped' = {}
    /\ exc' = "none"
    /\ exit_code' = None
    /\ price_failures' = 0
    /\ UNCHANGED <<price_call, tqqq_bot, launcher, broker>>

Next ==
    \/ Start
    \/ Wait630
    \/ CaptureOpenPrice
    \/ Wait700
    \/ Entry
    \/ Wait1259
    \/ CloseTQQQ
    \/ CloseSQQQ
    \/ Summary
    \/ HandleShutdown
    \/ Tick
    \/ Restart

Spec == Init /\ [][Next]_vars

\* ------------------------------------------- one get_current_price call
\* The price oracle on its own: one call of get_current_price on any three
\* attempt outcomes, made by a bot that has just started.
PriceInit ==
    /\ Init
    /\ now = T630
    /\ brokerPos = [s \in Symbols |-> 0]

CallGetCurrentPrice ==
    /\ ~price_call.called
    /\ \E atts \in [1..max_retries -> AttemptOutcomes] :
         LET r == get_current_price(atts) IN
         price_call' = [called |-> TRUE, atts |-> atts, price |-> r.price,
                        requests |-> r.requests, sleeps |-> r.sleeps]
    /\ UNCHANGED <<botVars, tqqq_bot, launcher>>

PriceNext == CallGetCurrentPrice

SpecPrice == PriceInit /\ [][PriceNext]_vars

\* ------------------------------------ wait_until_time, one iteration a step
\* The first wait of a run with its loop unrolled: the process reaches the
\* call at any instant from more than two sleep chunks before 6:30 to one
\* second past it, and every iteration of the while loop is a step.
\* Here wait_seconds is the loop variable itself.
WaitInit ==
    /\ Init
    /\ now = T630 - (2 * SleepChunk + MaxLead)
    /\ brokerPos = [s \in Symbols |-> 0]

WaitFrame == <<price_call, tqqq_bot, launcher, price_failures, run, dayState, notifications,
               summary_calls, skipped, exc, exit_code, broker>>

\* Start-up takes some time; then run() calls wait_until_time(6, 30).
WaitArrive ==
    /\ pc = "init"
    /\ now' \in now..(T630 + 1)
    /\ pc' = "wait630"
    /\ UNCHANGED <<WaitFrame, waitState>>

\* The code before the loop: the target test and the countdown.
WaitEnter ==
    /\ pc = "wait630"
    /\ IF Passed(now, T630)
       THEN /\ pc' = "wait700"
            /\ UNCHANGED wait_seconds
       ELSE /\ pc' = "sleeping"
            /\ wait_seconds' = T630 - now
    /\ slept' = 0
    /\ naps' = 0
    /\ UNCHANGED <<WaitFrame, now>>

\* One evaluation of the loop condition and, when it holds, one iteration.
WaitStep ==
    /\ pc = "sleeping"
    /\ LET st == WaitIter([w |-> wait_seconds, slept |-> slept, naps |-> naps, done |-> FALSE]) IN
       /\ wait_seconds' = st.w
       /\ slept' = st.slept
       /\ naps' = st.naps
       /\ now' = now + (st.slept - slept)
       /\ pc' = IF st.done THEN "capture" ELSE "sleeping"
    /\ UNCHANGED WaitFrame

WaitNext ==
    \/ WaitArrive
    \/ WaitEnter
    \/ WaitStep

\* The process keeps running: time.sleep returns.
SpecWait == WaitInit /\ [][WaitNext]_vars /\ WF_vars(WaitNext)

\* ------------------------ place_order at the entry, one statement group a step
\* execute_entry_strategy with the place_order call unrolled, so that the
\* signal handler can run between the broker's acceptance of the order and
\* the append to today_trades: the decision, submit_order, the price read
\* with the notification and the append, and the assignments after the
\* return are separate steps.
SignalInit ==
    /\ Init
    /\ brokerPos = [s \in Symbols |-> 0]

\* The symbol the decision chose: TQQQ when P > O, otherwise SQQQ.
OrderSymbol ==
    IF GoLong(current_price_7am, open_price_630am) THEN tqqq_symbol ELSE sqqq_symbol

SignalFrame == <<price_call, tqqq_bot, launcher, run, now, waitState, open_price_630am,
                 positions_closed, position_seen, summary_calls, skipped, exc, exit_code>>

\* Lines 276-314: the 7:00 price read, the missing-price test, the
\* comparison and, in the inverse branch, the SQQQ price read.
EntryDecide ==
    /\ pc = "entry"
    /\ \E p7 \in PriceResults, sqqq_price \in PriceResults :
         /\ current_price_7am' = p7
         /\ IF ~Truthy(p7) \/ ~Truthy(open_price_630am)
            THEN /\ notifications' = Append(notifications, Note("Strategy Error"))
                 /\ price_failures' = IF p7 = None THEN price_failures + 1 ELSE price_failures
                 /\ pc' = "wait1259"
            ELSE IF GoLong(p7, open_price_630am) \/ Truthy(sqqq_price)
            THEN /\ pc' = "order_submit"
                 /\ UNCHANGED <<notifications, price_failures>>
            ELSE /\ price_failures' = price_failures + 1
                 /\ pc' = "wait1259"
                 /\ UNCHANGED notifications
    /\ UNCHANGED <<SignalFrame, position_symbol, position_opened, today_trades, broker>>

\* Lines 191-201: submit_order returns the order or raises (except branch:
\* "Order Failed", return None).
OrderSubmit ==
    /\ pc = "order_submit"
    /\ \E accept \in BOOLEAN :
         LET sub == [symbol |-> OrderSymbol, side |-> "BUY", qty |-> quantity,
                     accepted |-> accept, run |-> run, phase |-> "entry",
                     id |-> Len(submits) + 1] IN
         /\ submits' = Append(submits, sub)
         /\ IF accept
            THEN /\ brokerPos' = [brokerPos EXCEPT ![OrderSymbol] = @ + quantity]
                 /\ pc' = "order_record"
                 /\ UNCHANGED notifications
            ELSE /\ notifications' = Append(notifications, NoteAbout("Order Failed", <<OrderSymbol>>))
                 /\ pc' = "wait1259"
                 /\ UNCHANGED brokerPos
    /\ UNCHANGED <<SignalFrame, current_price_7am, position_symbol, position_opened,
                   today_trades, price_failures>>

\* Lines 203-227: the price read, the log line and the notification that
\* format it (TypeError on None -> except branch), the append, the return.
OrderRecord ==
    /\ pc = "order_record"
    /\ \E price \in PriceResults :
         IF price = None
         THEN /\ notifications' = Append(notifications, NoteAbout("Order Failed", <<OrderSymbol>>))
              /\ price_failures' = price_failures + 1
              /\ pc' = "wait1259"
              /\ UNCHANGED today_trades
         ELSE /\ notifications' = Append(notifications,
                                         NoteAbout("Trade Executed", <<"BUY", OrderSymbol>>))
              /\ today_trades' = Append(today_trades,
                    [action |-> "BUY", symbol |-> OrderSymbol, quantity |-> quantity,
                     price |-> price, order_id |-> Len(submits)])
              /\ pc' = "order_done"
              /\ UNCHANGED price_failures
    /\ UNCHANGED <<SignalFrame, current_price_7am, position_symbol, position_opened, broker>>

\* Lines 302-309 / 316-323: if order: position_symbol, position_opened, the
\* signal notification.
EntryFinish ==
    /\ pc = "order_done"
    /\ position_symbol' = OrderSymbol
    /\ position_opened' = TRUE
    /\ notifications' = Append(notifications,
          NoteAbout(IF OrderSymbol = tqqq_symbol THEN "BUY TQQQ Signal" ELSE "BUY SQQQ Signal",
                    <<OrderSymbol>>))
    /\ pc' = "wait1259"
    /\ UNCHANGED <<SignalFrame, current_price_7am, today_trades, broker, price_failures>>

SignalNext ==
    \/ Start
    \/ Wait630
    \/ CaptureOpenPrice
    \/ Wait700
    \/ EntryDecide
    \/ OrderSubmit
    \/ OrderRecord
    \/ EntryFinish
    \/ HandleShutdown

SpecSignal == SignalInit /\ [][SignalNext]_vars

\* ------------------------------ TQQQTradingBot (single-symbol variant)
\* src/tqqq_bot/tqqq_trading_bot.py.  The bot state is the record tqqq_bot;
\* the broker and the clock are those of the module.

\* get_current_price(): one request, no retry.  A raised request and a reply
\* without the symbol give None; otherwise the ask, or the bid when the ask
\* is 0 or None, is returned as it is, zero included (a None bid makes the
\* "${price:.2f}" log line raise, which the except branch turns into None).
TQQQ_get_current_price(a) == IF a.kind = "quote" THEN QuotePrice(a) ELSE None

TQQQPriceResults == {TQQQ_get_current_price(a) : a \in AttemptOutcomes}

TQQQNote(b, title) == [b EXCEPT !.notifications = Append(@, Note(title))]

\* st = [bot, pos, submits].  place_order(side, quantity): a price of None
\* makes the "~${current_price:.2f}" format raise inside the try block.
TQQQ_place_order(st, side, qty, phase, accept, price) ==
    LET sub == [symbol |-> tqqq_symbol, side |-> side, qty |-> qty, accepted |-> accept,
                run |-> run, phase |-> phase, id |-> Len(st.submits) + 1]
        sent == [st EXCEPT !.submits = Append(@, sub),
                           !.pos = IF accept
                                   THEN [@ EXCEPT ![tqqq_symbol] = IF side = "BUY" THEN @ + qty ELSE @ - qty]
                                   ELSE @]
        rec == [action |-> side, quantity |-> qty, price |-> price, order_id |-> sub.id]
    IN  IF accept /\ price # None
        THEN [st |-> [sent EXCEPT !.bot.notifications = Append(@, NoteAbout("Trade Executed", <<side>>)),
                                  !.bot.today_trades = Append(@, rec)],
              order |-> TRUE]
        ELSE [st |-> [sent EXCEPT !.bot.notifications = Append(@, Note("Order Failed"))],
              order |-> FALSE]

\* execute_morning_strategy(): p7 = the 7:00 price read, answered = the
\* position query returned, accept / ordPrice = inputs of place_order.
\* price_change / market_open_price raises ZeroDivisionError on a zero open
\* price; nothing in the method catches it.
execute_morning_strategy(st, p7, answered, accept, ordPrice) ==
    LET st1 == [st EXCEPT !.bot.seven_am_price = p7]
        open == st.bot.market_open_price
    IN  IF p7 = None \/ open = None
        THEN [st |-> [st1 EXCEPT !.bot = TQQQNote(@, "Strategy Error")], raised |-> "none"]
        ELSE IF open = 0
        THEN [st |-> st1, raised |-> "ZeroDivisionError"]
        ELSE IF p7 > open
        THEN LET r == TQQQ_place_order(st1, "BUY", quantity, "entry", accept, ordPrice) IN
             IF r.order
             THEN [st |-> [r.st EXCEPT !.bot = TQQQNote([@ EXCEPT !.position_opened = TRUE],
                                                         "BUY Signal Executed")],
                   raised |-> "none"]
             ELSE [st |-> r.st, raised |-> "none"]
        ELSE LET position == GetPosition(st.pos, tqqq_symbol, answered)
                 st2 == [st1 EXCEPT !.bot.position_seen = position]
             IN  IF ShouldClose(position)
                 THEN LET r == TQQQ_place_order(st2, "SELL", quantity, "entry", accept, ordPrice) IN
                      IF r.order
                      THEN [st |-> [r.st EXCEPT !.bot = TQQQNote(@, "SELL Signal Executed")],
                            raised |-> "none"]
                      ELSE [st |-> r.st, raised |-> "none"]
                 ELSE [st |-> [st2 EXCEPT !.bot = TQQQNote(@, "SELL Signal Skipped")],
                       raised |-> "none"]

\* close_position(): price = the price read before the order; after an
\* accepted order the "Position Closed" message formats it (and the P&L
\* subtracts from it), which raises TypeError when it is None.
close_position(st, answered, price, accept, ordPrice) ==
    LET position == GetPosition(st.pos, tqqq_symbol, answered)
        st1 == [st EXCEPT !.bot.position_seen = position]
    IN  IF ShouldClose(position)
        THEN LET r == TQQQ_place_order(st1, "SELL", position.qty, "exit", accept, ordPrice) IN
             IF ~r.order THEN [st |-> r.st, raised |-> "none"]
             ELSE IF price = None THEN [st |-> r.st, raised |-> "TypeError"]
             ELSE [st |-> [r.st EXCEPT !.bot = TQQQNote(@, "Position Closed")], raised |-> "none"]
        ELSE [st |-> [st1 EXCEPT !.bot = TQQQNote(@, "No Position")], raised |-> "none"]

\* run(): except Exception -> "Bot Error" notification, re-raise.
TQQQUnexpected(b, e) == [TQQQNote(b, "Bot Error") EXCEPT !.pc = "error", !.exc = e]

TQQQFrame == <<price_call, launcher, price_failures, run, pc, dayState, notifications, summary_calls,
               skipped, exc, exit_code>>

\* __init__: get_account verifies the connection (its exception leaves the
\* constructor); then "Bot Started".
TQQQStart ==
    /\ tqqq_bot.pc = "init"
    /\ \E connected \in BOOLEAN :
         tqqq_bot' = IF connected
                     THEN [TQQQNote(tqqq_bot, "Bot Started") EXCEPT !.pc = "check_market"]
                     ELSE [tqqq_bot EXCEPT !.pc = "aborted", !.exc = "ConnectError"]
    /\ UNCHANGED <<TQQQFrame, now, waitState, broker>>

\* run(): if not self.is_market_open(): notify "Market Closed", and go on.
TQQQCheckMarket ==
    /\ tqqq_bot.pc = "check_market"
    /\ \E clock \in {"open", "closed", "failed"} :
         tqqq_bot' = IF clock = "failed" THEN TQQQUnexpected(tqqq_bot, "ClockError")
                     ELSE IF clock = "closed"
                     THEN [TQQQNote(tqqq_bot, "Market Closed") EXCEPT !.pc = "wait630"]
                     ELSE [tqqq_bot EXCEPT !.pc = "wait630"]
    /\ UNCHANGED <<TQQQFrame, now, waitState, broker>>

\* wait_until_time(hour, minute) of the variant: the same code as the EC2 bot.
TQQQWaitUntilTime(at, target, handler, next) ==
    /\ tqqq_bot.pc = at
    /\ IF Passed(now, target)
       THEN /\ tqqq_bot' = [tqqq_bot EXCEPT !.pc = next]
            /\ wait_seconds' = 0
            /\ slept' = 0
            /\ naps' = 0
            /\ now' = now
       ELSE LET r == WaitLoop(target - now) IN
            /\ wait_seconds' = target - now
            /\ slept' = r.slept
            /\ naps' = r.naps
            /\ now' = now + r.slept
            /\ tqqq_bot' = [tqqq_bot EXCEPT !.pc = handler]
    /\ UNCHANGED <<TQQQFrame, broker>>

TQQQWait630 == TQQQWaitUntilTime("wait630", T630, "capture", "wait700")
TQQQWait700 == TQQQWaitUntilTime("wait700", T700, "morning", "wait1259")
TQQQWait1259 == TQQQWaitUntilTime("wait1259", T1259, "close", "summary")

\* time.sleep(5); self.market_open_price = self.get_current_price();
\* "Market Open" is notified only for a truthy price.
TQQQCapture ==
    /\ tqqq_bot.pc = "capture"
    /\ \E p \in TQQQPriceResults :
         tqqq_bot' = LET b == [tqqq_bot EXCEPT !.market_open_price = p, !.pc = "wait700"] IN
                     IF Truthy(p) THEN TQQQNote(b, "Market Open") ELSE b
    /\ now' = now + PostOpenDelay
    /\ UNCHANGED <<TQQQFrame, waitState, broker>>

TQQQMorning ==
    /\ tqqq_bot.pc = "morning"
    /\ \E p7 \in TQQQPriceResults, answered \in BOOLEAN, accept \in BOOLEAN,
          ordPrice \in TQQQPriceResults :
         LET r == execute_morning_strategy([bot |-> tqqq_bot, pos |-> brokerPos, submits |-> submits],
                                           p7, answered, accept, ordPrice) IN
         /\ tqqq_bot' = IF r.raised = "none" THEN [r.st.bot EXCEPT !.pc = "wait1259"]
                        ELSE TQQQUnexpected(r.st.bot, r.raised)
         /\ brokerPos' = r.st.pos
         /\ submits' = r.st.submits
    /\ UNCHANGED <<TQQQFrame, now, waitState>>

TQQQClose ==
    /\ tqqq_bot.pc = "close"
    /\ \E answered \in BOOLEAN, price \in TQQQPriceResults, accept \in BOOLEAN,
          ordPrice \in TQQQPriceResults :
         LET r == close_position([bot |-> tqqq_bot, pos |-> brokerPos, submits |-> submits],
                                 answered, price, accept, ordPrice) IN
         /\ tqqq_bot' = IF r.raised = "none" THEN [r.st.bot EXCEPT !.pc = "summary"]
                        ELSE TQQQUnexpected(r.st.bot, r.raised)
         /\ brokerPos' = r.st.pos
         /\ submits' = r.st.submits
    /\ UNCHANGED <<TQQQFrame, now, waitState>>

\* generate_daily_summary(): neither the account query nor the file write is
\* inside a try block; the "Daily Summary" notification lies between them.
TQQQSummary ==
    /\ tqqq_bot.pc = "summary"
    /\ \E outcome \in SummaryOutcomes :
         tqqq_bot' = IF outcome = "account_failed" THEN TQQQUnexpected(tqqq_bot, "AccountError")
                     ELSE IF outcome = "write_failed"
                     THEN TQQQUnexpected(TQQQNote(tqqq_bot, "Daily Summary"), "OSError")
                     ELSE [TQQQNote(tqqq_bot, "Daily Summary") EXCEPT !.pc = "done"]
    /\ UNCHANGED <<TQQQFrame, now, waitState, broker>>

\* run(): except KeyboardInterrupt -> "Bot Stopped" notification.
TQQQInterrupt ==
    /\ tqqq_bot.pc \notin {"init", "aborted", "error", "done", "stopped"}
    /\ tqqq_bot' = [TQQQNote(tqqq_bot, "Bot Stopped") EXCEPT !.pc = "stopped",
                                                             !.exc = "KeyboardInterrupt"]
    /\ UNCHANGED <<TQQQFrame, now, waitState, broker>>

TQQQNext ==
    \/ TQQQStart
    \/ TQQQCheckMarket
    \/ TQQQWait630
    \/ TQQQCapture
    \/ TQQQWait700
    \/ TQQQMorning
    \/ TQQQWait1259
    \/ TQQQClose
    \/ TQQQSummary
    \/ TQQQInterrupt

SpecTQQQ == Init /\ [][TQQQNext]_vars

\* --------------------------------------------------- launchers
\* What the operator can answer at a confirmation prompt; "EOF" stands for
\* a closed standard input (input() raises EOFError, which neither launcher
\* catches: the process ends with status 1).
LivePhrase == "YES I WANT LIVE TRADING"
Answers == {LivePhrase, "yes i want live trading", "YES", "", "EOF"}

LaunchFrame == <<price_call, tqqq_bot, price_failures, run, now, waitState, dayState,
                 notifications, summary_calls, skipped, exc, broker>>

\* Variant: the result of the validation is printed but not acted upon.
run_bot_unvalidated(live, force, valid, answer) ==
    IF live /\ answer = "EOF"
    THEN [constructed |-> FALSE, paper_trading |-> TRUE, status |-> 1]
    ELSE [constructed |-> TRUE, paper_trading |-> ~(live /\ answer = LivePhrase),
          status |-> None]

\* Variant: a short "YES" also confirms live trading.
run_bot_lenient(live, force, valid, answer) ==
    IF ~valid /\ ~force
    THEN [constructed |-> FALSE, paper_trading |-> TRUE, status |-> 1]
    ELSE IF live /\ answer = "EOF"
    THEN [constructed |-> FALSE, paper_trading |-> TRUE, status |-> 1]
    ELSE [constructed |-> TRUE, paper_trading |-> ~(live /\ answer \in {LivePhrase, "YES"}),
          status |-> None]

\* run_bot(paper_trading = not args.live, force): return False after a failed
\* validation without --force; in live mode ask for the confirmation phrase
\* and fall back to paper trading on any other answer; then construct the
\* bot.  status is the exit status already decided (None: the bot decides).
run_bot(live, force, valid, answer) ==
    IF ~valid /\ ~force
    THEN [constructed |-> FALSE, paper_trading |-> TRUE, status |-> 1]
    ELSE IF live /\ answer = "EOF"
    THEN [constructed |-> FALSE, paper_trading |-> TRUE, status |-> 1]
    ELSE [constructed |-> TRUE, paper_trading |-> ~(live /\ answer = LivePhrase),
          status |-> None]

\* main() of run_bot.py: --config, --test-notifications and --validate-only
\* return without running the bot.
run_bot_main(mode, live, force, valid, answer) ==
    IF mode \in {"config", "test_notifications"}
    THEN [constructed |-> FALSE, paper_trading |-> TRUE, status |-> 0]
    ELSE IF mode = "validate_only"
    THEN [constructed |-> FALSE, paper_trading |-> TRUE, status |-> IF valid THEN 0 ELSE 1]
    ELSE run_bot(live, force, valid, answer)

\* python run_bot.py ...: env_ok / config_ok = check_environment and
\* validate_config found no error (validate_only returns their conjunction).
LaunchEC2 ==
    /\ launcher.program = "none"
    /\ pc = "init"
    /\ \E mode \in {"config", "test_notifications", "validate_only", "run"},
          live \in BOOLEAN, force \in BOOLEAN, env_ok \in BOOLEAN, config_ok \in BOOLEAN,
          answer \in Answers :
         LET valid == env_ok /\ config_ok
             r == run_bot_main(mode, live, force, valid, answer)
         IN  /\ launcher' = [program |-> "run_bot", mode |-> mode, live |-> live,
                             paper |-> FALSE, force |-> force, valid |-> valid,
                             answer |-> IF mode = "run" /\ (valid \/ force) /\ live
                                        THEN answer ELSE "",
                             config |-> <<>>, errors |-> {},
                             constructed |-> r.constructed,
                             paper_trading |-> r.paper_trading, status |-> r.status]
             /\ IF r.constructed
                THEN UNCHANGED <<pc, exit_code>>
                ELSE pc' = "exited" /\ exit_code' = r.status
    /\ UNCHANGED LaunchFrame

\* The bot run_bot has constructed.
LaunchedEC2 == launcher.program = "run_bot" /\ launcher.constructed

LaunchInit ==
    /\ Init
    /\ now = T630 - (2 * SleepChunk + MaxLead)
    /\ brokerPos = [s \in Symbols |-> 0]

LaunchNext ==
    \/ LaunchEC2
    \/ LaunchedEC2 /\ Start
    \/ LaunchedEC2 /\ Wait630
    \/ LaunchedEC2 /\ CaptureOpenPrice
    \/ LaunchedEC2 /\ Wait700
    \/ LaunchedEC2 /\ Entry
    \/ LaunchedEC2 /\ Wait1259
    \/ LaunchedEC2 /\ CloseTQQQ
    \/ LaunchedEC2 /\ CloseSQQQ
    \/ LaunchedEC2 /\ Summary
    \/ LaunchedEC2 /\ HandleShutdown

SpecLaunch == LaunchInit /\ [][LaunchNext]_vars

\* ---- run_tqqq_bot.py and the configuration of the single-symbol bot
ConfigHours == {6, 7}
ConfigMinutes == {0, 30}
ConfigTimes == [hour : ConfigHours, minute : ConfigMinutes]
ExitHours == {12, 14}
Configs == [market_open_time : ConfigTimes, entry_time : ConfigTimes,
            exit_hour : ExitHours, paper_trading : BOOLEAN]

EntryBeforeOpen == "Entry time cannot be before market open time"
ExitAfterClose == "Exit time cannot be after market close (1:00 PM PDT)"

\* validate_config() of src/tqqq_bot/config.py on the trading times (the
\* quantity and percentage settings are those of the file and raise no
\* error): the entry test compares the hours only.
validate_config(cfg) ==
    (IF cfg.entry_time.hour < cfg.market_open_time.hour THEN {EntryBeforeOpen} ELSE {})
    \cup (IF cfg.exit_hour > 13 THEN {ExitAfterClose} ELSE {})

\* main() of run_tqqq_bot.py.
run_tqqq_bot_main(mode, env_ok, cfg, paper, live, answer) ==
    LET no(st) == [constructed |-> FALSE, paper_trading |-> TRUE, status |-> st,
                   errors |-> {}, asked |-> FALSE]
        errors == validate_config(cfg)
    IN  IF mode = "test_notifications" THEN no(0)
        ELSE IF ~env_ok THEN no(1)
        ELSE IF errors # {} THEN [no(1) EXCEPT !.errors = errors]
        ELSE IF mode = "validate_only" THEN no(0)
        ELSE IF paper
        THEN [constructed |-> TRUE, paper_trading |-> TRUE, status |-> None,
              errors |-> {}, asked |-> FALSE]
        ELSE IF live
        THEN IF answer = "EOF" THEN [no(1) EXCEPT !.asked = TRUE]
             ELSE IF answer # "YES" THEN [no(0) EXCEPT !.asked = TRUE]
             ELSE [constructed |-> TRUE, paper_trading |-> FALSE, status |-> None,
                   errors |-> {}, asked |-> TRUE]
        ELSE [constructed |-> TRUE, paper_trading |-> cfg.paper_trading, status |-> None,
              errors |-> {}, asked |-> FALSE]

\* python run_tqqq_bot.py ...: env_ok = check_requirements and
\* check_env_file succeeded.
LaunchTQQQ ==
    /\ launcher.program = "none"
    /\ tqqq_bot.pc = "init"
    /\ \E mode \in {"test_notifications", "validate_only", "run"}, env_ok \in BOOLEAN,
          cfg \in Configs, paper \in BOOLEAN, live \in BOOLEAN, answer \in Answers :
         LET r == run_tqqq_bot_main(mode, env_ok, cfg, paper, live, answer) IN
         /\ launcher' = [program |-> "run_tqqq_bot", mode |-> mode, live |-> live,
                         paper |-> paper, force |-> FALSE, valid |-> env_ok,
                         answer |-> IF r.asked THEN answer ELSE "",
                         config |-> cfg, errors |-> r.errors,
                         constructed |-> r.constructed,
                         paper_trading |-> r.paper_trading, status |-> r.status]
         /\ tqqq_bot' = IF r.constructed THEN tqqq_bot ELSE [tqqq_bot EXCEPT !.pc = "exited"]
    /\ UNCHANGED <<price_call, price_failures, run, pc, now, waitState, dayState, notifications,
                   summary_calls, skipped, exc, exit_code, broker>>

\* The bot run_tqqq_bot.py has constructed.
LaunchedTQQQ == launcher.program = "run_tqqq_bot" /\ launcher.constructed

LaunchTQQQNext ==
    \/ LaunchTQQQ
    \/ LaunchedTQQQ /\ TQQQStart
    \/ LaunchedTQQQ /\ TQQQCheckMarket
    \/ LaunchedTQQQ /\ TQQQWait630
    \/ LaunchedTQQQ /\ TQQQCapture
    \/ LaunchedTQQQ /\ TQQQWait700
    \/ LaunchedTQQQ /\ TQQQMorning
    \/ LaunchedTQQQ /\ TQQQWait1259
    \/ LaunchedTQQQ /\ TQQQClose
    \/ LaunchedTQQQ /\ TQQQSummary
    \/ LaunchedTQQQ /\ TQQQInterrupt

SpecLaunchTQQQ == LaunchInit /\ [][LaunchTQQQNext]_vars

TypeOK ==
    /\ run \in 1..MaxRuns
    /\ now \in Nat
    /\ open_price_630am \in {None} \cup Prices
    /\ current_price_7am \in {None} \cup Prices
    /\ position_symbol \in Symbols \cup {NoSymbol}
    /\ position_opened \in BOOLEAN
    /\ exit_code \in {None, 0, 1}

\* ============================================================ properties
\* Helpers over the broker's log of submit_order calls.
NewSubmits == {i \in DOMAIN submits' : i > Len(submits)}
RunSubmits(phase) == {i \in DOMAIN submits : submits[i].run = run /\ submits[i].phase = phase}
DaySubmits(phase) == {i \in DOMAIN submits : submits[i].phase = phase}
NewNotes == {i \in DOMAIN notifications' : i > Len(notifications)}
Abs(q) == IF q < 0 THEN 0 - q ELSE q

\* A step of the running process itself: not a restart, not the signal handler.
OwnStep(at) == pc = at /\ pc' # at /\ run' = run /\ pc' # "cancelled"

\* C1: at the entry decision with both prices available, every order
\* submitted is a BUY of TQQQ when the 7:00 price is above the open price and
\* a BUY of SQQQ when it is below or equal to it.
C1_EntryDirection ==
    [][(OwnStep("entry") /\ Truthy(open_price_630am) /\ Truthy(current_price_7am'))
        => \A i \in NewSubmits :
              /\ submits'[i].side = "BUY"
              /\ submits'[i].symbol =
                    IF current_price_7am' > open_price_630am THEN tqqq_symbol ELSE sqqq_symbol]_vars

\* The tie: after the entry decision with P = O an order for SQQQ was sent.
C1_Witness ==
    /\ pc = "wait1259"
    /\ Truthy(open_price_630am)
    /\ current_price_7am = open_price_630am
    /\ \E i \in RunSubmits("entry") : submits[i].symbol = sqqq_symbol /\ submits[i].side = "BUY"

\* C2 (as claimed): a close block that finds a nonzero broker position
\* submits exactly one order, for the reported quantity, SELL when it is
\* positive and BUY when it is negative; one that finds no position submits
\* nothing.
C2_CloseEveryNonzero ==
    [][\A s \in Symbols :
         (position_seen[s].status = "unqueried" /\ position_seen'[s].status \in {"held", "none"})
         => IF position_seen'[s].status = "held"
            THEN /\ Cardinality(NewSubmits) = 1
                 /\ \A i \in NewSubmits :
                       /\ submits'[i].symbol = s
                       /\ submits'[i].qty = Abs(position_seen'[s].qty)
                       /\ submits'[i].side = IF position_seen'[s].qty > 0 THEN "SELL" ELSE "BUY"
            ELSE NewSubmits = {}]_vars

\* C3 (as claimed): today_trades holds one record per order the broker
\* accepted in this run.
C3_RecordPerAcceptedOrder ==
    Len(today_trades) =
        Cardinality({i \in DOMAIN submits : submits[i].run = run /\ submits[i].accepted})

\* C4: an entry decision that lacks the 7:00 price or the open price submits
\* no order, notifies "Strategy Error" and leaves the run at the wait for the
\* exit checkpoint, with no exception and no exit code.
C4_MissingPriceSkipsEntry ==
    [][(OwnStep("entry") /\ (~Truthy(current_price_7am') \/ ~Truthy(open_price_630am)))
        => /\ submits' = submits
           /\ today_trades' = today_trades
           /\ notifications' = Append(notifications, Note("Strategy Error"))
           /\ position_opened' = FALSE
           /\ pc' = "wait1259"
           /\ exc' = "none"
           /\ exit_code' = None]_vars

\* The entry decision ran without a usable price pair and the run is at the
\* wait for the exit checkpoint.
C4_Witness ==
    /\ pc = "wait1259"
    /\ "wait700" \notin skipped
    /\ ~Truthy(current_price_7am) \/ ~Truthy(open_price_630am)
    /\ notifications # <<>>
    /\ notifications[Len(notifications)].title = "Strategy Error"
    /\ RunSubmits("entry") = {}

\* C5 (as claimed): no run is ended by the exception that an unavailable
\* price causes.
C5_PriceFailureNeverAborts == ~(pc = "error" /\ exc = "TypeError")

\* C6 (as claimed): a run submits at most one opening order and at most one
\* closing order.
C6_OneOpenOneClose ==
    /\ Cardinality(RunSubmits("entry")) <= 1
    /\ Cardinality(RunSubmits("exit")) <= 1

\* C6 (amended): a run submits at most one opening order and at most one
\* closing order for each tracked symbol.
C6_OneOpenOneClosePerSymbol ==
    /\ Cardinality(RunSubmits("entry")) <= 1
    /\ \A s \in Symbols :
         Cardinality({i \in RunSubmits("exit") : submits[i].symbol = s}) <= 1

\* A run that closed both tracked symbols.
C6_Witness ==
    /\ pc \in {"summary", "done"}
    /\ \A s \in Symbols : \E i \in RunSubmits("exit") : submits[i].symbol = s

\* C7: over all runs of the day at most one entry order is submitted, and
\* no symbol is sold by more than one order.
C7_NoDoubleSubmission ==
    /\ Cardinality(DaySubmits("entry")) <= 1
    /\ \A s \in Symbols :
         Cardinality({i \in DaySubmits("exit") :
                         submits[i].symbol = s /\ submits[i].side = "SELL"}) <= 1

\* A later run of the day, started after the entry of an earlier run, has
\* sold the position the earlier run bought.
C7_Witness ==
    /\ run > 1
    /\ \E i \in DaySubmits("entry"), j \in RunSubmits("exit") :
         /\ submits[i].run < run
         /\ submits[i].accepted
         /\ submits[j].symbol = submits[i].symbol
         /\ submits[j].accepted

\* C8: a step in which the broker rejects an order makes exactly one
\* submit_order call, appends no trade record, notifies "Order Failed",
\* records no position as opened or closed, and leaves the run on its way:
\* at the wait for the exit checkpoint after an entry order, at the next
\* close block or the summary after an exit order.
C8_RejectedOrder ==
    [][(\E i \in NewSubmits : ~submits'[i].accepted)
        => /\ Cardinality(NewSubmits) = 1
           /\ today_trades' = today_trades
           /\ \E n \in NewNotes : notifications'[n].title = "Order Failed"
           /\ \A n \in NewNotes : notifications'[n].title \in {"Order Failed", "No Positions",
                                                                "Positions Closed at 12:59 PM"}
           /\ position_opened' = position_opened
           /\ position_symbol' = position_symbol
           /\ positions_closed' = positions_closed
           /\ exc' = "none"
           /\ exit_code' = None
           /\ pc = "entry" => (pc' = "wait1259" /\ position_opened' = FALSE)
           /\ pc = "close_tqqq" => pc' = "close_sqqq"
           /\ pc = "close_sqqq" => pc' = "summary"]_vars

\* The entry order was rejected and the run is at the wait for the exit.
C8_Witness ==
    /\ pc = "wait1259"
    /\ \E i \in RunSubmits("entry") : ~submits[i].accepted
    /\ ~position_opened
    /\ today_trades = <<>>

\* The checkpoint a wait location waits for, and where a skip leads.
TargetOf(at) == IF at = "wait630" THEN T630 ELSE IF at = "wait700" THEN T700 ELSE T1259
SkipTo(at) == IF at = "wait630" THEN "wait700" ELSE IF at = "wait700" THEN "wait1259" ELSE "summary"
WaitPcs == {"wait630", "wait700", "wait1259"}

\* C9: wait_until_time called after the target time returns False without
\* sleeping: the run goes straight to the next checkpoint, the clock has not
\* moved and no sleep call was made.
C9_PastTargetSkips ==
    [][\A at \in WaitPcs :
         (OwnStep(at) /\ now > TargetOf(at))
         => /\ pc' = SkipTo(at)
            /\ naps' = 0
            /\ slept' = 0
            /\ now' = now
            /\ at \in skipped']_vars

\* The 6:30 wait was skipped: the run is past it without having slept and
\* without the capture having run.
C9_Witness ==
    /\ pc = "wait700"
    /\ now > T630
    /\ "wait630" \in skipped
    /\ naps = 0
    /\ Len(notifications) = 1

\* C10 (as claimed): a run that skipped a checkpoint and was not cancelled
\* ends with the summary generated and exit code 0.
C10_SkipEndsWithSummary ==
    (skipped # {} /\ pc \in {"done", "error"})
    => (pc = "done" /\ summary_calls = 1 /\ exit_code = 0)

\* The signal handler has run in this process.
ShutdownNotified == \E i \in DOMAIN notifications : notifications[i].title = "Bot Shutdown"
ThisRunSubmits == {i \in DOMAIN submits : submits[i].run = run}
LastNote == notifications[Len(notifications)]

\* C11 (as claimed): a shutdown signal that arrives while the run is at a
\* wait_until_time call ends the run as cancelled with the shutdown
\* notification emitted and the daily summary invoked.
C11_ShutdownDuringWaitSummarises ==
    [][(pc \in WaitPcs /\ pc' = "cancelled")
        => /\ \E n \in NewNotes : notifications'[n].title = "Bot Shutdown"
           /\ summary_calls' = summary_calls + 1]_vars

\* C12: once the run is done, cancelled (signal handler has run) or ended by
\* an exception, the process takes no further step: nothing of its state,
\* of the broker or of the clock it reads changes until a new process starts.
C12_TerminalIsFinal ==
    [][((pc \in {"done", "cancelled", "error"} \/ ShutdownNotified) /\ run' = run)
        => UNCHANGED vars]_vars

\* A run cancelled by the signal handler after it had bought.
C12_Witness ==
    /\ pc = "cancelled"
    /\ ShutdownNotified
    /\ position_opened
    /\ exit_code = 0

\* C13 (as claimed): a run that passed startup and was not stopped by a
\* signal has invoked generate_daily_summary exactly once when it ends.
C13_SummaryExactlyOnce ==
    pc \in {"done", "error"} => summary_calls = 1

\* C14 (as claimed): a run ended by an unexpected exception has reported it
\* with critical severity, has attempted the summary and exits non-zero.
C14_UnexpectedIsCritical ==
    pc = "error"
    => /\ LastNote.title = "Bot Error"
       /\ LastNote.urgency = "critical"
       /\ summary_calls >= 1
       /\ exit_code = 1

\* C15 (as claimed): whatever happens inside generate_daily_summary, the
\* run completes normally with exit code 0.
C15_SummaryFailureHarmless ==
    [][(pc = "summary" /\ summary_calls' = summary_calls + 1)
        => (pc' = "done" /\ exit_code' = 0 /\ exc' = "none")]_vars

\* C16: a process whose connection check failed is aborted with exit code
\* 1 and has waited for no checkpoint, fetched no price, queried no position,
\* submitted no order and sent no notification.
C16_NoBrokerNoRun ==
    exc = "ConnectError"
    => /\ pc = "aborted"
       /\ exit_code = 1
       /\ ThisRunSubmits = {}
       /\ skipped = {}
       /\ naps = 0 /\ slept = 0 /\ wait_seconds = 0
       /\ open_price_630am = None /\ current_price_7am = None
       /\ \A s \in Symbols : position_seen[s] = Unqueried
       /\ today_trades = <<>>
       /\ notifications = <<>>
       /\ summary_calls = 0

\* A restarted process that failed its connection check while the broker
\* holds the order of the earlier run.
C16_Witness ==
    /\ pc = "aborted"
    /\ exc = "ConnectError"
    /\ exit_code = 1
    /\ run > 1
    /\ submits # <<>>

\* A quote value that is a usable price, and an attempt that yields none.
Positive(x) == x # None /\ x > 0
FailedAttempt(a) == a.kind # "quote" \/ (~Positive(a.ask) /\ ~Positive(a.bid))
FirstGood(atts) ==
    IF \A i \in DOMAIN atts : FailedAttempt(atts[i]) THEN 0
    ELSE CHOOSE k \in DOMAIN atts :
            /\ ~FailedAttempt(atts[k])
            /\ \A j \in DOMAIN atts : j < k => FailedAttempt(atts[j])

C18_BoundedRetries ==
    price_call.called
    => LET k == FirstGood(price_call.atts) IN
       /\ price_call.requests \in 1..3
       /\ k # 0 => (price_call.price # None /\ price_call.requests = k)
       /\ k = 0 => (price_call.price = None /\ price_call.requests = 3)

\* A call whose first request raised and whose second one yielded the price.
C18_Witness ==
    /\ price_call.called
    /\ price_call.atts[1].kind = "exc"
    /\ ~FailedAttempt(price_call.atts[2])
    /\ price_call.requests = 2
    /\ price_call.price # None

\* C19 (as claimed): a position query that failed in transport is a hard
\* error for the run: the exit close never goes on as if there were no
\* position, and never reports "No Positions" after it.
C19_QueryFailureIsHardError ==
    \A s \in Symbols :
        position_seen[s].status = "failed"
        => /\ pc = "error"
           /\ \A i \in DOMAIN notifications : notifications[i].title # "No Positions"

\* C20 (as claimed): every "Order Failed" notification has critical
\* severity.
C20_OrderFailureIsCritical ==
    \A i \in DOMAIN notifications :
        notifications[i].title = "Order Failed" => notifications[i].urgency = "critical"

\* The run as the happy long path describes it: no checkpoint skipped, open
\* price O and 7:00 price P > O captured, no price read failed, every order
\* of the run accepted, and at the exit the broker reported the bought shares
\* of the long symbol and nothing to sell for the inverse symbol.
LongDay ==
    /\ skipped = {}
    /\ Truthy(open_price_630am)
    /\ Truthy(current_price_7am)
    /\ current_price_7am > open_price_630am
    /\ price_failures = 0
    /\ \A i \in ThisRunSubmits : submits[i].accepted
    /\ position_seen[tqqq_symbol] = [status |-> "held", qty |-> quantity]
    /\ ~(position_seen[sqqq_symbol].status = "held" /\ position_seen[sqqq_symbol].qty > 0)

\* C21: when the summary of such a run is generated, today_trades holds
\* exactly two records, a BUY and then a SELL of the long symbol, the BUY for
\* the configured quantity and the SELL for the same quantity.
C21_LongDayTwoRecords ==
    (LongDay /\ (pc = "summary" \/ summary_calls >= 1))
    => /\ Len(today_trades) = 2
       /\ today_trades[1].action = "BUY"
       /\ today_trades[2].action = "SELL"
       /\ today_trades[1].symbol = tqqq_symbol
       /\ today_trades[2].symbol = tqqq_symbol
       /\ today_trades[1].quantity = quantity
       /\ today_trades[2].quantity = today_trades[1].quantity

\* Such a run has generated its summary and completed.
C21_Witness ==
    /\ LongDay
    /\ pc = "done"
    /\ summary_calls = 1
    /\ Len(today_trades) = 2

\* C22 (as claimed): a run, not stopped by a signal, whose entry checkpoint
\* got no price while the broker holds no position and whose exit checkpoint
\* was reached ends with no trade recorded, the "No Positions" outcome
\* notified, the summary generated and exit code 0.
C22_EntryFailureDay ==
    (/\ pc \in {"done", "error"}
     /\ "wait700" \notin skipped
     /\ "wait1259" \notin skipped
     /\ current_price_7am = None
     /\ ThisRunSubmits = {}
     /\ \A s \in Symbols : brokerPos[s] = 0)
    => /\ today_trades = <<>>
       /\ \E i \in DOMAIN notifications : notifications[i].title = "No Positions"
       /\ summary_calls = 1
       /\ pc = "done"
       /\ exit_code = 0

\* C23: within a run open_price_630am is assigned only by the open capture
\* and current_price_7am and position_symbol only by the entry decision, each
\* while it still has its initial value; once it has a value it keeps it.
C23_SetOnce ==
    [][run' = run
        => /\ open_price_630am' # open_price_630am
                => (pc = "capture" /\ open_price_630am = None)
           /\ current_price_7am' # current_price_7am
                => (pc = "entry" /\ current_price_7am = None)
           /\ position_symbol' # position_symbol
                => (pc = "entry" /\ position_symbol = NoSymbol)]_vars

\* A completed run that captured both prices and chose an instrument.
C23_Witness ==
    /\ pc = "done"
    /\ Truthy(open_price_630am)
    /\ Truthy(current_price_7am)
    /\ position_symbol # NoSymbol

\* C24: every step of a run leaves the records already in today_trades in
\* place and in order: the list before the step is a prefix of the list
\* after it.
C24_AppendOnly ==
    [][run' = run
        => /\ Len(today_trades') >= Len(today_trades)
           /\ SubSeq(today_trades', 1, Len(today_trades)) = today_trades]_vars

\* A second record was appended behind the first.
C24_Witness ==
    /\ Len(today_trades) = 2
    /\ today_trades[1].order_id < today_trades[2].order_id

\* Position of a run in run(): each wait and each handler in program order.
Rank(at) ==
    CASE at = "init" -> 0
      [] at = "wait630" -> 1
      [] at = "capture" -> 2
      [] at = "wait700" -> 3
      [] at = "entry" -> 4
      [] at = "wait1259" -> 5
      [] at = "close_tqqq" -> 6
      [] at = "close_sqqq" -> 7
      [] at = "summary" -> 8
      [] OTHER -> 9

\* The handler that sends a notification, for the titles only one handler
\* sends: 1 open capture, 2 entry decision, 3 exit close, 4 summary.
Stage(title) ==
    CASE title \in {"Open Price Captured", "Error: Open Price"} -> 1
      [] title \in {"Strategy Error", "BUY TQQQ Signal", "BUY SQQQ Signal"} -> 2
      [] title \in {"No Positions", "Positions Closed at 12:59 PM"} -> 3
      [] title = "Daily Summary" -> 4
      [] OTHER -> 0

\* C25: a run moves through open capture, entry decision, exit close and
\* summary strictly in this order; a handler is entered only from the wait
\* for its own checkpoint (the summary from the exit close or its skipped
\* wait), and the notifications of the handlers appear in that order, each
\* handler at most once.
C25_HandlersInOrder ==
    [][run' = run
        => /\ pc' # pc => Rank(pc') > Rank(pc)
           /\ (pc' # pc /\ pc' = "capture") => pc = "wait630"
           /\ (pc' # pc /\ pc' = "entry") => pc = "wait700"
           /\ (pc' # pc /\ pc' = "close_tqqq") => pc = "wait1259"
           /\ (pc' # pc /\ pc' = "summary") => pc \in {"wait1259", "close_sqqq"}
           /\ \A i, j \in DOMAIN notifications' :
                 (i < j /\ Stage(notifications'[i].title) # 0
                        /\ Stage(notifications'[j].title) # 0)
                 => Stage(notifications'[i].title) < Stage(notifications'[j].title)]_vars

\* A completed run in which all four handlers ran.
C25_Witness ==
    /\ pc = "done"
    /\ skipped = {}
    /\ \A k \in 1..4 : \E i \in DOMAIN notifications : Stage(notifications[i].title) = k

\* C26 (as claimed): every step of a run in which a price read fails, an
\* order is rejected or the top-level exception handler runs sends at least
\* one notification.
C26_EveryErrorNotified ==
    [][(/\ run' = run
        /\ \/ price_failures' > price_failures
           \/ \E i \in NewSubmits : ~submits'[i].accepted
           \/ pc' = "error" /\ pc # "error")
        => NewNotes # {}]_vars

\* A step of the single-symbol bot's own run out of `at` (not the interrupt).
TQQQOwnStep(at) == tqqq_bot.pc = at /\ tqqq_bot'.pc \notin {at, "stopped"}
TQQQReportsPositive(b) == b.position_seen.status = "held" /\ b.position_seen.qty > 0

\* C27 (as claimed): at 7:00 with both prices captured, the single-symbol
\* bot submits one BUY of 1 share when the 7:00 price is above the open
\* price; otherwise one SELL of 1 share when the broker reports a positive
\* position and no order when it does not; at 12:59 it submits one SELL of
\* the reported quantity when the broker reports a positive position, and no
\* order otherwise.
C27_SingleSymbolStrategy ==
    [][/\ (/\ TQQQOwnStep("morning")
           /\ tqqq_bot.market_open_price # None
           /\ tqqq_bot'.seven_am_price # None)
          => IF tqqq_bot'.seven_am_price > tqqq_bot.market_open_price
             THEN /\ Cardinality(NewSubmits) = 1
                  /\ \A i \in NewSubmits : submits'[i].side = "BUY" /\ submits'[i].qty = 1
             ELSE IF TQQQReportsPositive(tqqq_bot')
             THEN /\ Cardinality(NewSubmits) = 1
                  /\ \A i \in NewSubmits : submits'[i].side = "SELL" /\ submits'[i].qty = 1
             ELSE NewSubmits = {}
       /\ TQQQOwnStep("close")
          => IF TQQQReportsPositive(tqqq_bot')
             THEN /\ Cardinality(NewSubmits) = 1
                  /\ \A i \in NewSubmits :
                        /\ submits'[i].side = "SELL"
                        /\ submits'[i].qty = tqqq_bot'.position_seen.qty
             ELSE NewSubmits = {}]_vars

\* C28 (as claimed): the single-symbol bot never stores a zero price as
\* market_open_price or seven_am_price, and its run is never ended by a
\* zero price.
C28_ZeroPriceIsFailure ==
    /\ tqqq_bot.market_open_price # 0
    /\ tqqq_bot.seven_am_price # 0
    /\ tqqq_bot.exc # "ZeroDivisionError"

C30_BackoffBetweenAttempts ==
    price_call.called
    => /\ \A i \in 1..(price_call.requests - 1) :
             \E k \in DOMAIN price_call.sleeps :
                price_call.sleeps[k] = [after |-> i, secs |-> retry_delay]
       /\ \A k \in DOMAIN price_call.sleeps : price_call.sleeps[k].after < price_call.requests

\* The entry decision is in its inverse branch: both prices present, P <= O.
InverseBranch(open, p7) == Truthy(open) /\ Truthy(p7) /\ ~(p7 > open)

\* C31: in the inverse branch, whatever the broker and the later price read
\* do, execute_entry_strategy submits an order only when the SQQQ price read
\* returned a price, and then exactly one BUY of SQQQ; when it returned none
\* nothing is submitted or recorded, position_opened stays false and
\* position_symbol unset; and the step of the run that found no SQQQ price
\* leaves it at the wait for the exit checkpoint.
C31_InverseNeedsPrice ==
    [][OwnStep("entry")
        => /\ \A p7 \in PriceResults, sqqq_price \in PriceResults,
                 accept \in BOOLEAN, ordPrice \in PriceResults :
                InverseBranch(open_price_630am, p7)
                => LET r == ExecuteEntryStrategy(IO, open_price_630am, p7, sqqq_price,
                                                 accept, ordPrice)
                   IN  IF sqqq_price = None
                       THEN /\ r.io.submits = submits
                            /\ r.io.trades = today_trades
                            /\ r.io.notes = notifications
                            /\ r.position_opened = FALSE
                            /\ r.position_symbol = NoSymbol
                       ELSE /\ Len(r.io.submits) = Len(submits) + 1
                            /\ r.io.submits[Len(submits) + 1].symbol = sqqq_symbol
                            /\ r.io.submits[Len(submits) + 1].side = "BUY"
           /\ (/\ InverseBranch(open_price_630am, current_price_7am')
               /\ NewSubmits = {})
              => /\ price_failures' = price_failures + 1
                 /\ position_opened' = FALSE
                 /\ position_symbol' = NoSymbol
                 /\ pc' = "wait1259"
                 /\ exc' = "none"]_vars

\* The inverse branch found no SQQQ price: nothing was ordered and the run
\* waits for the exit checkpoint.
C31_Witness ==
    /\ pc = "wait1259"
    /\ "wait700" \notin skipped
    /\ InverseBranch(open_price_630am, current_price_7am)
    /\ RunSubmits("entry") = {}
    /\ price_failures = 1
    /\ ~position_opened
    /\ position_symbol = NoSymbol

\* C32 (as claimed): whatever happens in the TQQQ block of close_positions
\* the run goes on to the SQQQ block, which queries the SQQQ position and,
\* when the broker reports a positive one, submits exactly one SELL for it.
C32_BlocksIndependent ==
    [][/\ (pc = "close_tqqq" /\ run' = run /\ pc' \notin {"close_tqqq", "cancelled"})
          => pc' = "close_sqqq"
       /\ OwnStep("close_sqqq")
          => /\ position_seen'[sqqq_symbol].status # "unqueried"
             /\ (position_seen'[sqqq_symbol].status = "held"
                 /\ position_seen'[sqqq_symbol].qty > 0)
                => /\ Cardinality(NewSubmits) = 1
                   /\ \A i \in NewSubmits :
                         submits'[i].symbol = sqqq_symbol /\ submits'[i].side = "SELL"]_vars

\* C33 (as claimed): "No Positions" is notified only when no closing order
\* was submitted at the exit checkpoint, and once close_positions has sent
\* its closing notification every symbol whose SELL the broker accepted is
\* named by "Positions Closed at 12:59 PM".
C33_NoPositionsMeansNoOrder ==
    (\E n \in DOMAIN notifications :
        notifications[n].title \in {"No Positions", "Positions Closed at 12:59 PM"})
    => /\ (\E n \in DOMAIN notifications : notifications[n].title = "No Positions")
          => RunSubmits("exit") = {}
       /\ \A i \in RunSubmits("exit") :
             submits[i].accepted
             => \E n \in DOMAIN notifications :
                   /\ notifications[n].title = "Positions Closed at 12:59 PM"
                   /\ \E k \in DOMAIN notifications[n].about :
                         notifications[n].about[k] = submits[i].symbol

\* The BUY records of today_trades.
BuyRecords == {k \in DOMAIN today_trades : today_trades[k].action = "BUY"}

C36_SignalKeepsRecords ==
    /\ []((pc = "cancelled" /\ price_failures = 0)
          => \A i \in ThisRunSubmits :
                submits[i].accepted
                => \E k \in DOMAIN today_trades : today_trades[k].order_id = submits[i].id)
    /\ [][(ShutdownNotified /\ run' = run) => submits' = submits]_vars

\* C37: the EC2 launcher constructs and runs the bot only if validate_only()
\* reported no error or --force was given; with validation errors and no
\* --force the bot is never constructed, nothing of the bot runs (no
\* notification, no order), and main returns exit code 1.
C37_ValidationGatesBot ==
    (launcher.program = "run_bot" /\ launcher.mode = "run")
    => /\ launcher.constructed => (launcher.valid \/ launcher.force)
       /\ (~launcher.valid /\ ~launcher.force)
          => /\ ~launcher.constructed
             /\ pc = "exited"
             /\ exit_code = 1
             /\ submits = <<>>
             /\ notifications = <<>>

C37_Witness ==
    /\ launcher.program = "run_bot"
    /\ launcher.mode = "run"
    /\ ~launcher.valid
    /\ ~launcher.force
    /\ launcher.live
    /\ pc = "exited"
    /\ exit_code = 1

\* C38: the EC2 launcher constructs the bot with paper_trading = False only
\* if --live was given and the operator typed exactly
\* 'YES I WANT LIVE TRADING'; after any other answer, and in every run
\* without --live, the bot it constructs is in paper mode.
C38_LiveOnlyOnPhrase ==
    (launcher.program = "run_bot" /\ launcher.constructed)
    => (launcher.paper_trading = FALSE
        <=> (launcher.live /\ launcher.answer = LivePhrase))

C38_Witness ==
    /\ launcher.program = "run_bot"
    /\ launcher.constructed
    /\ launcher.live
    /\ launcher.answer = LivePhrase
    /\ ~launcher.paper_trading
    /\ submits # <<>>

\* C39: the single-symbol launcher starts the bot in live mode only after
\* the operator typed 'YES' at the confirmation prompt, whatever the
\* configuration and the flags; with --paper the bot starts in paper mode.
C39_LiveOnlyAfterYes ==
    LaunchedTQQQ
    => /\ ~launcher.paper_trading => launcher.answer = "YES"
       /\ launcher.paper => launcher.paper_trading

\* Time of day t1 is earlier than t2, hour and minute.
EarlierTimeOfDay(t1, t2) ==
    t1.hour * 60 + t1.minute < t2.hour * 60 + t2.minute

\* C40: validate_config of the single-symbol bot reports 'Entry time cannot
\* be before market open time' exactly for the configurations whose entry
\* time of day (hour and minute) is earlier than the market open time.
C40_EntryBeforeOpenReported ==
    (launcher.program = "run_tqqq_bot" /\ launcher.mode # "test_notifications"
     /\ launcher.valid)
    => (EntryBeforeOpen \in launcher.errors
        <=> EarlierTimeOfDay(launcher.config.entry_time, launcher.config.market_open_time))

====
